---- MODULE Spec2Model ----
(***************************************************************************)
(* A model of the discussion orchestration of gemini-discussion-simulator: *)
(* src/src/discussion_system.py (DiscussionSystem) and                     *)
(* src/src/agent_classes.py (Agent, Message).                              *)
(*                                                                         *)
(* Python strings are finite sequences of one-character strings, so that   *)
(* len(), slicing, strip() and concatenation are computed, not assumed.    *)
(* One action is one stretch of code that runs without suspending: from    *)
(* one await of the coordinating task (or of a generation task) to the     *)
(* next.                                                                   *)
(***************************************************************************)
EXTENDS Naturals, Sequences, FiniteSets

VARIABLES
    agents,             \* self.agents: the agent list, in insertion order
    messages,           \* self.messages: the message log
    discussion_topic,   \* self.discussion_topic
    agent_max_chars,    \* self.agent_max_chars
    summary_max_chars,  \* self.summary_max_chars
    pc,                 \* where the coordinating task (conduct_discussion) stands
    rounds,             \* conduct_discussion's argument
    round_num,          \* conduct_discussion's loop variable
    tasks,              \* conduct_discussion's local list of generation tasks
    apiCalls,           \* what the external model endpoint has been asked, and answered
    sumPc,              \* where summarize_discussion stands
    summary,            \* the value summarize_discussion returned
    genAgent,           \* a direct call of _generate_response: its agent argument
    genOutcome,         \* ... what the external model does in that call
    genResult,          \* ... how the call ended
    api_key,            \* main: the credential read from the environment
    saved,              \* the file save_discussion wrote: <<>> or <<document>>
    agents_data,        \* AgentManager.agents_data: the registry in memory
    config_doc,         \* the "categories" content of the registry's backing document
    op_result,          \* what the last AgentManager operation returned: <<>> or <<value>>
    selected,           \* what the last selection of agents returned: <<>> or <<list>>
    other_data,         \* a second AgentManager on the same document: its agents_data
    other_result,       \* ... what its last operation returned: <<>> or <<value>>
    loaded,             \* what ResultsManager._load_discussion_summary returned
    found,              \* what DiscussionManager.search_discussions returned
    created,            \* what DiscussionManager.create_summary returned
    discussions,        \* what ResultsManager.get_all_discussions returned
    trends              \* what DiscussionBrowser.get_topic_trends returned

vars == <<agents, messages, discussion_topic, agent_max_chars, summary_max_chars,
          pc, rounds, round_num, tasks, apiCalls, sumPc, summary,
          genAgent, genOutcome, genResult,
          api_key, saved, agents_data, config_doc, op_result, selected,
          other_data, other_result, loaded, found, created, discussions, trends>>

sessionVars == <<agents, messages, discussion_topic, agent_max_chars,
                 summary_max_chars, pc, rounds, round_num, tasks, apiCalls,
                 sumPc, summary>>

genVars == <<genAgent, genOutcome, genResult>>

mainVars == <<api_key, saved>>

regVars == <<agents_data, config_doc, op_result, selected>>

otherVars == <<other_data, other_result>>

resultVars == <<loaded, found, created, discussions, trends>>

toolVars == <<otherVars, resultVars>>

----------------------------------------------------------------------------
(* Bounds of the model.                                                    *)

MaxAgents == 2

MaxRounds == 2

(* Program constants.                                                      *)

DefaultAgentMaxChars == 200

DefaultSummaryMaxChars == 1500

HistoryWindow == 10

----------------------------------------------------------------------------
(* Strings.                                                                *)

Min(a, b) == IF a < b THEN a ELSE b

Max(a, b) == IF a < b THEN b ELSE a

SystemName == <<"S", "y", "s", "t", "e", "m">>

TopicPrefix ==
    <<"D", "i", "s", "c", "u", "s", "s", "i", "o", "n", " ",
      "t", "o", "p", "i", "c", ":", " ">>

ErrorPrefix == <<"[", "E", "r", "r", "o", "r", " ", "f", "r", "o", "m", " ">>

SummaryErrorPrefix ==
    <<"E", "r", "r", "o", "r", " ", "g", "e", "n", "e", "r", "a", "t", "i", "n", "g", " ",
      "s", "u", "m", "m", "a", "r", "y", ":", " ">>

Ellipsis == <<".", ".", ".">>

ColonSpace == <<":", " ">>

NoPreviousMessages ==
    <<"N", "o", " ", "p", "r", "e", "v", "i", "o", "u", "s", " ",
      "m", "e", "s", "s", "a", "g", "e", "s", ".">>

Whitespace == {" ", "\n", "\t"}

\* str.lstrip()
RECURSIVE LStrip(_)
LStrip(s) ==
    IF s # <<>> /\ Head(s) \in Whitespace THEN LStrip(Tail(s)) ELSE s

\* str.rstrip()
RECURSIVE RStrip(_)
RStrip(s) ==
    IF s # <<>> /\ s[Len(s)] \in Whitespace
    THEN RStrip(SubSeq(s, 1, Len(s) - 1))
    ELSE s

\* str.strip()
Strip(s) == RStrip(LStrip(s))

\* s[:n] for n >= 0
Prefix(s, n) == SubSeq(s, 1, Min(n, Len(s)))

\* s[-n:] for n > 0
Last(s, n) == SubSeq(s, Max(1, Len(s) - n + 1), Len(s))

----------------------------------------------------------------------------
(* Agents and messages (agent_classes.py, DiscussionAgent).                *)

NameA == <<"A">>

NameB == <<"B">>

\* Agent(name, role, personality): the base dataclass, which has no model_name
Agent(name, role, personality) ==
    [name |-> name, role |-> role, personality |-> personality]

\* DiscussionAgent(name, role, personality): model_name takes its default
DiscussionAgent(name, role, personality) ==
    [name |-> name, role |-> role, personality |-> personality,
     model_name |-> "gemini-2.0-flash-lite"]

\* time.time(): the wall clock, read when a Message is built. Its readings
\* never decrease; the log's length stands for it, so that the messages of
\* one join share a reading and every later message has a greater one.
Now == Len(messages)

Message(agent_name, content, timestamp) ==
    [agent_name |-> agent_name, content |-> content, timestamp |-> timestamp]

\* The (name, role, personality) triples the callers pass to add_agent.
Personas ==
    { <<NameA, "roleA", "personalityA">>,
      <<NameB, "roleB", "personalityB">> }

Topics == { <<"T">> }

\* The values the callers pass to set_limits as agent_max_chars.
AgentLimits == {1, 2}

SummaryLimits == {3}

----------------------------------------------------------------------------
(* The external model endpoint: what one generate_content_async call and   *)
(* the reading of response.text can do.                                    *)

TextOutcome(raw) == [kind |-> "text", text |-> raw]

\* model.generate_content_async raises
CallError(detail) == [kind |-> "call_error", detail |-> detail]

\* response.text raises (a response without text)
TextError(detail) == [kind |-> "text_error", detail |-> detail]

Pending == [kind |-> "pending"]

ReplyText == <<" ", "o", "k", " ">>

ErrorDetail == <<"e">>

\* What the endpoint does in the calls of a session.
SessionOutcomes == { TextOutcome(ReplyText), CallError(ErrorDetail) }

----------------------------------------------------------------------------
(* DiscussionSystem's helpers.                                             *)

\* f"{msg.agent_name}: {msg.content}"
Line(msg) == msg.agent_name \o ColonSpace \o msg.content

\* A bug the code does not have: the window is the log's first 10 messages.
_format_conversation_history_oldest(msgs) ==
    IF msgs = <<>>
    THEN <<NoPreviousMessages>>
    ELSE LET w == Prefix(msgs, Min(HistoryWindow, Len(msgs)))
         IN  [i \in 1..Len(w) |-> Line(w[i])]

\* _format_conversation_history: the lines that "\n".join puts together.
\* The log's last 10 messages, oldest first.
_format_conversation_history(msgs) ==
    IF msgs = <<>>
    THEN <<NoPreviousMessages>>
    ELSE LET w == Last(msgs, HistoryWindow)
         IN  [i \in 1..Len(w) |-> Line(w[i])]

HasModelName(agent) == "model_name" \in DOMAIN agent

\* f"[Error from {agent.name}: {str(e)}]"
ErrorText(name, detail) == ErrorPrefix \o name \o ColonSpace \o detail \o <<"]">>

\* if len(text) > self.agent_max_chars: text = text[:self.agent_max_chars] + "..."
Truncate(text, max_chars) ==
    IF Len(text) > max_chars THEN Prefix(text, max_chars) \o Ellipsis ELSE text

Returned(value) == [raised |-> FALSE, value |-> value]

Raised(exception) == [raised |-> TRUE, exception |-> exception]

\* A bug the code does not have: a failure yields an empty reply.
GenerateResponseSwallow(agent, max_chars, outcome) ==
    IF ~HasModelName(agent)
    THEN Raised("AttributeError")
    ELSE IF outcome.kind = "text"
         THEN Returned(Truncate(Strip(outcome.text), max_chars))
         ELSE Returned(<<>>)

\* _generate_response, from its call to its end: how it ends when the
\* endpoint does `outcome`. genai.GenerativeModel(agent.model_name) stands
\* before the try block, so what it raises leaves the function.
_generate_response(agent, max_chars, outcome) ==
    IF ~HasModelName(agent)
    THEN Raised("AttributeError")
    ELSE IF outcome.kind = "text"
         THEN Returned(Truncate(Strip(outcome.text), max_chars))
         ELSE Returned(ErrorText(agent.name, outcome.detail))

\* A bug the code does not have: the window is taken once, before the loop.
NewTasksHoisted(msgs, ags) ==
    [j \in 1..Len(ags) |->
        [agent |-> ags[j],
         history |-> _format_conversation_history(Prefix(msgs, 1)),
         state |-> "created",
         result |-> <<>>]]

\* Lines 110-115: one coroutine per agent, all given the same window.
NewTasks(msgs, ags) ==
    [j \in 1..Len(ags) |->
        [agent |-> ags[j],
         history |-> _format_conversation_history(msgs),
         state |-> "created",
         result |-> <<>>]]

\* A bug the code does not have: the join ends with the first reply.
AnyReturned(ts) == \E j \in DOMAIN ts : ts[j].state = "returned"

\* asyncio.gather: the join ends when every task has returned.
AllReturned(ts) == \A j \in DOMAIN ts : ts[j].state = "returned"

IsErrorText(s) == Len(s) >= Len(ErrorPrefix) /\ Prefix(s, Len(ErrorPrefix)) = ErrorPrefix

\* A bug the code does not have: failed replies are left out of the log.
RoundMessagesDropErrors(ts) ==
    LET all == [j \in 1..Len(ts) |-> Message(ts[j].agent.name, ts[j].result, Now)]
    IN  SelectSeq(all, LAMBDA m : ~IsErrorText(m.content))

\* A bug the code does not have: replies appended last agent first.
RoundMessagesReversed(ts) ==
    [j \in 1..Len(ts) |->
        Message(ts[Len(ts) + 1 - j].agent.name, ts[Len(ts) + 1 - j].result, Now)]

\* Lines 121-127: one message per (agent, response) pair, in list order.
RoundMessages(ts) ==
    [j \in 1..Len(ts) |-> Message(ts[j].agent.name, ts[j].result, Now)]

AgentCall(r, j) == [kind |-> "agent", round |-> r, idx |-> j, outcome |-> Pending]

\* Lines 140-145: the lines "<author>: <content>" of the messages whose author
\* is not "System", in log order.
Transcript(msgs) ==
    LET kept == SelectSeq(msgs, LAMBDA m : m.agent_name # SystemName)
    IN  [i \in 1..Len(kept) |-> Line(kept[i])]

\* Lines 147-161: the summary prompt, as the record of the values its
\* f-string interpolates.
SummaryPrompt(topic, msgs) ==
    [discussion_topic |-> topic, full_discussion |-> Transcript(msgs)]

SummaryCall(prompt) ==
    [kind |-> "summary", round |-> 0, idx |-> 0, outcome |-> Pending, prompt |-> prompt]

\* Lines 173-190: the document save_discussion dumps.
Document(topic, ags, msgs) ==
    [topic |-> topic,
     agents |-> [j \in 1..Len(ags) |->
                    [name |-> ags[j].name, role |-> ags[j].role,
                     personality |-> ags[j].personality]],
     messages |-> [i \in 1..Len(msgs) |->
                    [agent_name |-> msgs[i].agent_name, content |-> msgs[i].content,
                     timestamp |-> msgs[i].timestamp]]]

NoFile == <<>>

\* os.getenv('GEMINI_API_KEY'): unset, or the key.
NoKey == ""

Credentials == {NoKey, "key"}

\* The index in apiCalls of the call of task j of round r that awaits its answer.
OpenCall(r, j) ==
    CHOOSE i \in DOMAIN apiCalls :
        /\ apiCalls[i].kind = "agent"
        /\ apiCalls[i].round = r
        /\ apiCalls[i].idx = j
        /\ apiCalls[i].outcome = Pending

----------------------------------------------------------------------------
(* The state after DiscussionSystem.__init__.                              *)

InitFields ==
    /\ agents = <<>>
    /\ messages = <<>>
    /\ discussion_topic = <<>>
    /\ agent_max_chars = DefaultAgentMaxChars
    /\ summary_max_chars = DefaultSummaryMaxChars
    /\ rounds = 0
    /\ round_num = 0
    /\ tasks = <<>>
    /\ apiCalls = <<>>
    /\ sumPc = "none"
    /\ summary = <<>>

NoDirectCall ==
    /\ genAgent = DiscussionAgent(NameA, "roleA", "personalityA")
    /\ genOutcome = Pending
    /\ genResult = Pending

\* No AgentManager is in use.
NoRegistry ==
    /\ agents_data = <<>>
    /\ config_doc = <<>>
    /\ op_result = <<>>
    /\ selected = <<>>
    /\ other_data = <<>>
    /\ other_result = <<>>

\* No stored discussion has been read.
NoResults ==
    /\ loaded = <<>>
    /\ found = <<>>
    /\ created = <<>>
    /\ discussions = <<>>
    /\ trends = <<>>

\* A DiscussionSystem the caller constructed with a key, nothing saved yet.
InitSession ==
    /\ InitFields
    /\ pc = "idle"
    /\ api_key = "key"
    /\ saved = NoFile
    /\ NoRegistry
    /\ NoResults

\* The driver's start: main() is about to read the credential.
Init ==
    /\ InitFields
    /\ pc = "main"
    /\ api_key \in Credentials
    /\ saved = NoFile
    /\ NoRegistry
    /\ NoResults
    /\ NoDirectCall

----------------------------------------------------------------------------
(* The driver's main().                                                    *)

\* A bug the code does not have: the session is set up whatever the key.
MainStartUnchecked ==
    /\ pc = "main"
    /\ pc' = "idle"
    /\ UNCHANGED <<agents, messages, discussion_topic, agent_max_chars, summary_max_chars,
                   rounds, round_num, tasks, apiCalls, sumPc, summary, genVars, mainVars, regVars, toolVars>>

\* main() reads the key: without one it prints the hint and returns; with
\* one it constructs the DiscussionSystem.
MainStart ==
    /\ pc = "main"
    /\ pc' = IF api_key = NoKey THEN "aborted" ELSE "idle"
    /\ UNCHANGED <<agents, messages, discussion_topic, agent_max_chars, summary_max_chars,
                   rounds, round_num, tasks, apiCalls, sumPc, summary, genVars, mainVars, regVars, toolVars>>

----------------------------------------------------------------------------
(* The operations of DiscussionSystem.                                     *)

add_agent(name, role, personality) ==
    /\ pc = "idle"
    /\ Len(agents) < MaxAgents
    /\ agents' = Append(agents, DiscussionAgent(name, role, personality))
    /\ UNCHANGED <<messages, discussion_topic, agent_max_chars, summary_max_chars,
                   pc, rounds, round_num, tasks, apiCalls, sumPc, summary, genVars, mainVars, regVars, toolVars>>

set_topic(topic) ==
    /\ pc = "idle"
    /\ discussion_topic' = topic
    /\ UNCHANGED <<agents, messages, agent_max_chars, summary_max_chars,
                   pc, rounds, round_num, tasks, apiCalls, sumPc, summary, genVars, mainVars, regVars, toolVars>>

set_limits(agent_limit, summary_limit) ==
    /\ pc = "idle"
    /\ agent_max_chars' = agent_limit
    /\ summary_max_chars' = summary_limit
    /\ UNCHANGED <<agents, messages, discussion_topic,
                   pc, rounds, round_num, tasks, apiCalls, sumPc, summary, genVars, mainVars, regVars, toolVars>>

\* A bug the code does not have: the rounds start without the System message.
conduct_discussion_unmarked(R) ==
    /\ pc = "idle"
    /\ rounds' = R
    /\ round_num' = 0
    /\ messages' = messages
    /\ IF R > 0
       THEN /\ tasks' = NewTasks(messages', agents)
            /\ pc' = "gather"
       ELSE /\ tasks' = <<>>
            /\ pc' = "done"
    /\ UNCHANGED <<agents, discussion_topic, agent_max_chars, summary_max_chars,
                   apiCalls, sumPc, summary, genVars, mainVars, regVars, toolVars>>

\* conduct_discussion(rounds = R) up to its first await: the System message,
\* then either no round at all or round 0's window, its tasks and the gather.
conduct_discussion(R) ==
    /\ pc = "idle"
    /\ rounds' = R
    /\ round_num' = 0
    /\ messages' = Append(messages, Message(SystemName, TopicPrefix \o discussion_topic, Now))
    /\ IF R > 0
       THEN /\ tasks' = NewTasks(messages', agents)
            /\ pc' = "gather"
       ELSE /\ tasks' = <<>>
            /\ pc' = "done"
    /\ UNCHANGED <<agents, discussion_topic, agent_max_chars, summary_max_chars,
                   apiCalls, sumPc, summary, genVars, mainVars, regVars, toolVars>>

\* A generation task's first step: the model object, the prompt, and the
\* request to the endpoint, on whose answer the task then waits. The event
\* loop starts the tasks of a gather in list order.
TaskStart(j) ==
    /\ pc = "gather"
    /\ j \in DOMAIN tasks
    /\ tasks[j].state = "created"
    /\ \A i \in 1..(j - 1) : tasks[i].state # "created"
    /\ HasModelName(tasks[j].agent)
    /\ tasks' = [tasks EXCEPT ![j].state = "awaiting"]
    /\ apiCalls' = Append(apiCalls, AgentCall(round_num, j))
    /\ UNCHANGED <<agents, messages, discussion_topic, agent_max_chars,
                   summary_max_chars, pc, rounds, round_num, sumPc, summary, genVars, mainVars, regVars, toolVars>>

\* A bug the code does not have: the task itself appends its reply to the log.
TaskReturnAppends(j, outcome) ==
    /\ pc = "gather"
    /\ j \in DOMAIN tasks
    /\ tasks[j].state = "awaiting"
    /\ apiCalls' = [apiCalls EXCEPT ![OpenCall(round_num, j)].outcome = outcome]
    /\ tasks' = [tasks EXCEPT
           ![j].state = "returned",
           ![j].result = _generate_response(tasks[j].agent, agent_max_chars, outcome).value]
    /\ messages' = Append(messages, Message(tasks[j].agent.name, tasks'[j].result, Now))
    /\ UNCHANGED <<agents, discussion_topic, agent_max_chars,
                   summary_max_chars, pc, rounds, round_num, sumPc, summary, genVars, mainVars,
                   regVars, toolVars>>

\* A bug the code does not have: a failed request is sent once more.
TaskReturnRetry(j, outcome) ==
    /\ pc = "gather"
    /\ j \in DOMAIN tasks
    /\ tasks[j].state = "awaiting"
    /\ LET i == OpenCall(round_num, j)
           answered == [apiCalls EXCEPT ![i].outcome = outcome]
           n == Cardinality({k \in DOMAIN apiCalls :
                    apiCalls[k].round = round_num /\ apiCalls[k].idx = j})
       IN  IF outcome.kind # "text" /\ n < 2
           THEN /\ apiCalls' = Append(answered, AgentCall(round_num, j))
                /\ tasks' = tasks
           ELSE /\ apiCalls' = answered
                /\ tasks' = [tasks EXCEPT
                       ![j].state = "returned",
                       ![j].result =
                           _generate_response(tasks[j].agent, agent_max_chars, outcome).value]
    /\ UNCHANGED <<agents, messages, discussion_topic, agent_max_chars,
                   summary_max_chars, pc, rounds, round_num, sumPc, summary, genVars, mainVars, regVars, toolVars>>

\* The endpoint answers task j (lines 71-78): the task returns its reply or
\* its error text.
TaskReturn(j, outcome) ==
    /\ pc = "gather"
    /\ j \in DOMAIN tasks
    /\ tasks[j].state = "awaiting"
    /\ apiCalls' = [apiCalls EXCEPT ![OpenCall(round_num, j)].outcome = outcome]
    /\ tasks' = [tasks EXCEPT
           ![j].state = "returned",
           ![j].result = _generate_response(tasks[j].agent, agent_max_chars, outcome).value]
    /\ UNCHANGED <<agents, messages, discussion_topic, agent_max_chars,
                   summary_max_chars, pc, rounds, round_num, sumPc, summary, genVars, mainVars, regVars, toolVars>>

\* A bug the code does not have: the join gives up on the calls that hang
\* and appends the replies that came.
GatherJoinTimeout ==
    /\ pc = "gather"
    /\ \A j \in DOMAIN tasks : tasks[j].state \in {"returned", "hung"}
    /\ messages' = messages \o
           RoundMessages(SelectSeq(tasks, LAMBDA t : t.state = "returned"))
    /\ pc' = "sleep"
    /\ UNCHANGED <<agents, discussion_topic, agent_max_chars, summary_max_chars,
                   rounds, round_num, tasks, apiCalls, sumPc, summary, genVars, mainVars, regVars,
                   toolVars>>

\* Lines 118-131: the gather ends, the replies are appended in list order,
\* and the coordinator sleeps.
GatherJoin ==
    /\ pc = "gather"
    /\ AllReturned(tasks)
    /\ messages' = messages \o RoundMessages(tasks)
    /\ pc' = "sleep"
    /\ UNCHANGED <<agents, discussion_topic, agent_max_chars, summary_max_chars,
                   rounds, round_num, tasks, apiCalls, sumPc, summary, genVars, mainVars, regVars, toolVars>>

\* asyncio.sleep(1) ends: the next round's window, tasks and gather, or the
\* return of self.messages.
SleepDone ==
    /\ pc = "sleep"
    /\ IF round_num + 1 < rounds
       THEN /\ round_num' = round_num + 1
            /\ tasks' = NewTasks(messages, agents)
            /\ pc' = "gather"
       ELSE /\ pc' = "done"
            /\ UNCHANGED <<round_num, tasks>>
    /\ UNCHANGED <<agents, messages, discussion_topic, agent_max_chars,
                   summary_max_chars, rounds, apiCalls, sumPc, summary, genVars, mainVars, regVars, toolVars>>

\* summarize_discussion up to its await: the transcript of the messages that
\* are not the System's, and the one request to the endpoint.
SummarizeStart ==
    /\ pc = "done"
    /\ sumPc = "none"
    /\ apiCalls' = Append(apiCalls, SummaryCall(SummaryPrompt(discussion_topic, messages)))
    /\ sumPc' = "awaiting"
    /\ UNCHANGED <<agents, messages, discussion_topic, agent_max_chars,
                   summary_max_chars, pc, rounds, round_num, tasks, summary, genVars, mainVars, regVars, toolVars>>

\* A bug the code does not have: the summary is cut at summary_max_chars.
SummaryTextCut(outcome) ==
    IF outcome.kind = "text"
    THEN Truncate(Strip(outcome.text), summary_max_chars)
    ELSE SummaryErrorPrefix \o outcome.detail

\* Lines 164-169: the stripped text, whole, or the error text.
SummaryText(outcome) ==
    IF outcome.kind = "text"
    THEN Strip(outcome.text)
    ELSE SummaryErrorPrefix \o outcome.detail

\* A bug the code does not have: a failed summary request raises to the caller.
SummarizeReturnRaises(outcome) ==
    /\ sumPc = "awaiting"
    /\ apiCalls' = [apiCalls EXCEPT ![Len(apiCalls)].outcome = outcome]
    /\ IF outcome.kind = "text"
       THEN /\ summary' = SummaryText(outcome)
            /\ sumPc' = "returned"
       ELSE /\ summary' = summary
            /\ sumPc' = "raised"
    /\ UNCHANGED <<agents, messages, discussion_topic, agent_max_chars,
                   summary_max_chars, pc, rounds, round_num, tasks, genVars, mainVars, regVars, toolVars>>

\* The endpoint answers the summary request: summarize_discussion returns.
SummarizeReturn(outcome) ==
    /\ sumPc = "awaiting"
    /\ apiCalls' = [apiCalls EXCEPT ![Len(apiCalls)].outcome = outcome]
    /\ summary' = SummaryText(outcome)
    /\ sumPc' = "returned"
    /\ UNCHANGED <<agents, messages, discussion_topic, agent_max_chars,
                   summary_max_chars, pc, rounds, round_num, tasks, genVars, mainVars, regVars, toolVars>>

\* save_discussion as the drivers call it, once the summary is at hand: the
\* document replaces whatever the file held.
save_discussion ==
    /\ pc = "done"
    /\ sumPc = "returned"
    /\ saved = NoFile
    /\ saved' = <<Document(discussion_topic, agents, messages)>>
    /\ UNCHANGED <<agents, messages, discussion_topic, agent_max_chars, summary_max_chars,
                   pc, rounds, round_num, tasks, apiCalls, sumPc, summary, genVars,
                   api_key, regVars, toolVars>>

SummaryReply == <<" ", "s", "u", "m", "s", " ">>

SummaryOutcomes == { TextOutcome(SummaryReply), CallError(ErrorDetail) }

----------------------------------------------------------------------------
(* A session: configuration, conduct_discussion, summarize_discussion.     *)

Next ==
    \/ MainStart
    \/ save_discussion
    \/ \E p \in Personas : add_agent(p[1], p[2], p[3])
    \/ \E t \in Topics : set_topic(t)
    \/ \E a \in AgentLimits, s \in SummaryLimits : set_limits(a, s)
    \/ \E R \in 0..MaxRounds : conduct_discussion(R)
    \/ \E j \in 1..Len(tasks) : TaskStart(j)
    \/ \E j \in 1..Len(tasks), o \in SessionOutcomes : TaskReturn(j, o)
    \/ GatherJoin
    \/ SleepDone
    \/ SummarizeStart
    \/ \E o \in SummaryOutcomes : SummarizeReturn(o)

Spec == Init /\ [][Next]_vars

----------------------------------------------------------------------------
(* A session with one participant more than the window holds.              *)

WideNames == <<"A", "B", "C", "D", "E", "F", "G", "H", "I", "J", "K", "L">>

WideAgents ==
    [j \in 1..(HistoryWindow + 1) |-> DiscussionAgent(<<WideNames[j]>>, "role", "personality")]

InitWide ==
    /\ agents = WideAgents
    /\ messages = <<>>
    /\ discussion_topic = <<"T">>
    /\ agent_max_chars = DefaultAgentMaxChars
    /\ summary_max_chars = DefaultSummaryMaxChars
    /\ pc = "idle"
    /\ rounds = 0
    /\ round_num = 0
    /\ tasks = <<>>
    /\ apiCalls = <<>>
    /\ sumPc = "none"
    /\ summary = <<>>
    /\ api_key = "key"
    /\ saved = NoFile
    /\ NoRegistry
    /\ NoResults
    /\ NoDirectCall

NextWide ==
    \/ conduct_discussion(2)
    \/ \E j \in 1..Len(tasks) : TaskStart(j)
    \/ \E j \in 1..Len(tasks) : TaskReturn(j, TextOutcome(ReplyText))
    \/ GatherJoin
    \/ SleepDone

SpecWide == InitWide /\ [][NextWide]_vars

----------------------------------------------------------------------------
(* _generate_response called on its own, with the arguments its signature  *)
(* admits (agent: Agent).                                                  *)

GenAgents ==
    { Agent(p[1], p[2], p[3]) : p \in Personas }
        \cup { DiscussionAgent(p[1], p[2], p[3]) : p \in Personas }

LongDetail == <<"q", "u", "o", "t", "a">>

GenOutcomes ==
    { TextOutcome(<<>>), TextOutcome(ReplyText),
      TextOutcome(<<"a", "b", "c", "d", "e">>),
      CallError(ErrorDetail), CallError(LongDetail), TextError(ErrorDetail) }

InitGen ==
    /\ InitSession
    /\ genAgent \in GenAgents
    /\ genOutcome \in GenOutcomes
    /\ genResult = Pending

CallGenerateResponse ==
    /\ genResult = Pending
    /\ genResult' = _generate_response(genAgent, agent_max_chars, genOutcome)
    /\ UNCHANGED <<sessionVars, genAgent, genOutcome, mainVars, regVars, toolVars>>

NextGen ==
    \/ \E a \in AgentLimits, s \in SummaryLimits : set_limits(a, s)
    \/ CallGenerateResponse

SpecGen == InitGen /\ [][NextGen]_vars

----------------------------------------------------------------------------
(* A DiscussionSystem used past its first discussion: the methods carry no *)
(* guard on the state of the session, so a caller can call any of them     *)
(* once conduct_discussion has returned. The caller is sequential: it is   *)
(* not inside summarize_discussion when it makes the next call.            *)

MaxRuns == 2

LateTopic == <<"U">>

\* The discussions started so far: each one appended one System message.
Runs == Cardinality({ i \in DOMAIN messages : messages[i].agent_name = SystemName })

\* add_agent after a discussion: lines 34-37 append as they always do.
add_agent_after(name, role, personality) ==
    /\ pc = "done"
    /\ sumPc # "awaiting"
    /\ Len(agents) < MaxAgents
    /\ agents' = Append(agents, DiscussionAgent(name, role, personality))
    /\ UNCHANGED <<messages, discussion_topic, agent_max_chars, summary_max_chars,
                   pc, rounds, round_num, tasks, apiCalls, sumPc, summary, genVars, mainVars, regVars, toolVars>>

\* set_topic after a discussion: lines 39-41 assign as they always do.
set_topic_after(topic) ==
    /\ pc = "done"
    /\ sumPc # "awaiting"
    /\ discussion_topic' = topic
    /\ UNCHANGED <<agents, messages, agent_max_chars, summary_max_chars,
                   pc, rounds, round_num, tasks, apiCalls, sumPc, summary, genVars, mainVars, regVars, toolVars>>

set_limits_after(agent_limit, summary_limit) ==
    /\ pc = "done"
    /\ sumPc # "awaiting"
    /\ agent_max_chars' = agent_limit
    /\ summary_max_chars' = summary_limit
    /\ UNCHANGED <<agents, messages, discussion_topic,
                   pc, rounds, round_num, tasks, apiCalls, sumPc, summary, genVars, mainVars, regVars, toolVars>>

\* A bug the code does not have: a further discussion starts from an empty log.
conduct_discussion_fresh(R) ==
    /\ pc = "done"
    /\ sumPc # "awaiting"
    /\ Runs < MaxRuns
    /\ rounds' = R
    /\ round_num' = 0
    /\ messages' = <<Message(SystemName, TopicPrefix \o discussion_topic, Now)>>
    /\ IF R > 0
       THEN /\ tasks' = NewTasks(messages', agents)
            /\ pc' = "gather"
       ELSE /\ tasks' = <<>>
            /\ pc' = "done"
    /\ UNCHANGED <<agents, discussion_topic, agent_max_chars, summary_max_chars,
                   apiCalls, sumPc, summary, genVars, mainVars, regVars, toolVars>>

\* A further conduct_discussion on the same object: lines 97-104 append one
\* more System message to the log as it stands, and the rounds follow.
conduct_discussion_again(R) ==
    /\ pc = "done"
    /\ sumPc # "awaiting"
    /\ Runs < MaxRuns
    /\ rounds' = R
    /\ round_num' = 0
    /\ messages' = Append(messages, Message(SystemName, TopicPrefix \o discussion_topic, Now))
    /\ IF R > 0
       THEN /\ tasks' = NewTasks(messages', agents)
            /\ pc' = "gather"
       ELSE /\ tasks' = <<>>
            /\ pc' = "done"
    /\ UNCHANGED <<agents, discussion_topic, agent_max_chars, summary_max_chars,
                   apiCalls, sumPc, summary, genVars, mainVars, regVars, toolVars>>

InitReuse == InitSession /\ NoDirectCall

NextReuse ==
    \/ add_agent(NameA, "roleA", "personalityA")
    \/ \E t \in Topics : set_topic(t)
    \/ conduct_discussion(1)
    \/ \E j \in 1..Len(tasks) : TaskStart(j)
    \/ \E j \in 1..Len(tasks) : TaskReturn(j, TextOutcome(ReplyText))
    \/ GatherJoin
    \/ SleepDone
    \/ SummarizeStart
    \/ \E o \in SummaryOutcomes : SummarizeReturn(o)
    \/ save_discussion
    \/ add_agent_after(NameB, "roleB", "personalityB")
    \/ set_topic_after(LateTopic)
    \/ \E s \in SummaryLimits : set_limits_after(1, s)
    \/ conduct_discussion_again(1)

SpecReuse == InitReuse /\ [][NextReuse]_vars

----------------------------------------------------------------------------
(* AgentManager: the registry of agents by category. agents_data is a dict *)
(* from category to a list of agent dicts; a dict keeps its keys in order  *)
(* of insertion, so it is modelled as the sequence of its items.           *)

Categories == {"c1", "c2"}

\* The arguments of AgentManager.add_agent.
RegistryEntries == Personas

AgentData(name, role, personality) ==
    [name |-> name, role |-> role, personality |-> personality]

Item(category, agent_list) == [category |-> category, agents |-> agent_list]

\* category in data
HasCategory(data, category) == \E i \in DOMAIN data : data[i].category = category

KeyIndex(data, category) == CHOOSE i \in DOMAIN data : data[i].category = category

\* data[category]
Lookup(data, category) == data[KeyIndex(data, category)].agents

\* data[category] = agent_list: a new key goes last, an old one keeps its place.
Assign(data, category, agent_list) ==
    IF HasCategory(data, category)
    THEN [data EXCEPT ![KeyIndex(data, category)].agents = agent_list]
    ELSE Append(data, Item(category, agent_list))

\* del data[category]
Delete(data, category) == SelectSeq(data, LAMBDA it : it.category # category)

HasName(agent_list, name) == \E i \in DOMAIN agent_list : agent_list[i].name = name

\* get_agents_by_category: an Agent for every dict of the category, in order.
get_agents_by_category(data, category) ==
    IF ~HasCategory(data, category)
    THEN <<>>
    ELSE LET l == Lookup(data, category)
         IN  [i \in 1..Len(l) |-> Agent(l[i].name, l[i].role, l[i].personality)]

RECURSIVE AllAgentsFrom(_, _)
AllAgentsFrom(data, i) ==
    IF i > Len(data)
    THEN <<>>
    ELSE get_agents_by_category(data, data[i].category) \o AllAgentsFrom(data, i + 1)

\* get_all_agents: the categories' agents, category after category.
get_all_agents(data) == AllAgentsFrom(data, 1)

\* A bug the code does not have: True is returned and nothing is written.
_save_agents_unwritten(data, doc, ok) == [doc |-> doc, ret |-> ok]

\* _save_agents: the document is rewritten from agents_data and True is
\* returned, or the write fails, the document stays and False is returned.
_save_agents(data, doc, ok) ==
    IF ok THEN [doc |-> data, ret |-> TRUE] ELSE [doc |-> doc, ret |-> FALSE]

\* What an operation leaves in op_result: the call and the value it returned.
Called(op, category, name, ret) ==
    <<[op |-> op, category |-> category, name |-> name, ret |-> ret]>>

\* A bug the code does not have: add_agent without its check for the name.
manager_add_agent_unchecked(category, name, role, personality, ok) ==
    LET with_key == IF HasCategory(agents_data, category)
                    THEN agents_data
                    ELSE Assign(agents_data, category, <<>>)
        added == Assign(with_key, category,
                        Append(Lookup(with_key, category), AgentData(name, role, personality)))
        s == _save_agents(added, config_doc, ok)
    IN  /\ Len(Lookup(with_key, category)) < 2
        /\ agents_data' = added
        /\ config_doc' = s.doc
        /\ op_result' = Called("add_agent", category, name, s.ret)
        /\ UNCHANGED <<sessionVars, genVars, mainVars, selected, toolVars>>

\* AgentManager.add_agent (lines 126-143).
manager_add_agent(category, name, role, personality, ok) ==
    LET with_key == IF HasCategory(agents_data, category)
                    THEN agents_data
                    ELSE Assign(agents_data, category, <<>>)
    IN  IF HasName(Lookup(with_key, category), name)
        THEN /\ agents_data' = with_key
             /\ config_doc' = config_doc
             /\ op_result' = Called("add_agent", category, name, FALSE)
             /\ UNCHANGED <<sessionVars, genVars, mainVars, selected, toolVars>>
        ELSE LET added == Assign(with_key, category,
                              Append(Lookup(with_key, category),
                                     AgentData(name, role, personality)))
                 s == _save_agents(added, config_doc, ok)
             IN  /\ agents_data' = added
                 /\ config_doc' = s.doc
                 /\ op_result' = Called("add_agent", category, name, s.ret)
                 /\ UNCHANGED <<sessionVars, genVars, mainVars, selected, toolVars>>

\* A bug the code does not have: a category left empty is dropped with its
\* last agent.
manager_remove_agent_pruning(category, name, ok) ==
    IF ~HasCategory(agents_data, category)
    THEN /\ op_result' = Called("remove_agent", category, name, FALSE)
         /\ UNCHANGED <<sessionVars, genVars, mainVars, agents_data, config_doc, selected,
                        toolVars>>
    ELSE LET kept == SelectSeq(Lookup(agents_data, category), LAMBDA a : a.name # name)
             filtered == IF kept = <<>>
                         THEN Delete(agents_data, category)
                         ELSE Assign(agents_data, category, kept)
         IN  IF Len(kept) = Len(Lookup(agents_data, category))
             THEN /\ agents_data' = agents_data
                  /\ config_doc' = config_doc
                  /\ op_result' = Called("remove_agent", category, name, FALSE)
                  /\ UNCHANGED <<sessionVars, genVars, mainVars, selected, toolVars>>
             ELSE LET s == _save_agents(filtered, config_doc, ok)
                  IN  /\ agents_data' = filtered
                      /\ config_doc' = s.doc
                      /\ op_result' = Called("remove_agent", category, name, s.ret)
                      /\ UNCHANGED <<sessionVars, genVars, mainVars, selected, toolVars>>

\* AgentManager.remove_agent (lines 145-161): the filtered list is assigned
\* before the lengths are compared.
manager_remove_agent(category, name, ok) ==
    IF ~HasCategory(agents_data, category)
    THEN /\ op_result' = Called("remove_agent", category, name, FALSE)
         /\ UNCHANGED <<sessionVars, genVars, mainVars, agents_data, config_doc, selected, toolVars>>
    ELSE LET kept == SelectSeq(Lookup(agents_data, category), LAMBDA a : a.name # name)
             filtered == Assign(agents_data, category, kept)
         IN  IF Len(kept) = Len(Lookup(agents_data, category))
             THEN /\ agents_data' = filtered
                  /\ config_doc' = config_doc
                  /\ op_result' = Called("remove_agent", category, name, FALSE)
                  /\ UNCHANGED <<sessionVars, genVars, mainVars, selected, toolVars>>
             ELSE LET s == _save_agents(filtered, config_doc, ok)
                  IN  /\ agents_data' = filtered
                      /\ config_doc' = s.doc
                      /\ op_result' = Called("remove_agent", category, name, s.ret)
                      /\ UNCHANGED <<sessionVars, genVars, mainVars, selected, toolVars>>

\* AgentManager.add_category (lines 163-170).
add_category(category, ok) ==
    IF HasCategory(agents_data, category)
    THEN /\ op_result' = Called("add_category", category, <<>>, FALSE)
         /\ UNCHANGED <<sessionVars, genVars, mainVars, agents_data, config_doc, selected, toolVars>>
    ELSE LET s == _save_agents(Assign(agents_data, category, <<>>), config_doc, ok)
         IN  /\ agents_data' = Assign(agents_data, category, <<>>)
             /\ config_doc' = s.doc
             /\ op_result' = Called("add_category", category, <<>>, s.ret)
             /\ UNCHANGED <<sessionVars, genVars, mainVars, selected, toolVars>>

\* AgentManager.remove_category (lines 172-179).
remove_category(category, ok) ==
    IF ~HasCategory(agents_data, category)
    THEN /\ op_result' = Called("remove_category", category, <<>>, FALSE)
         /\ UNCHANGED <<sessionVars, genVars, mainVars, agents_data, config_doc, selected, toolVars>>
    ELSE LET s == _save_agents(Delete(agents_data, category), config_doc, ok)
         IN  /\ agents_data' = Delete(agents_data, category)
             /\ config_doc' = s.doc
             /\ op_result' = Called("remove_category", category, <<>>, s.ret)
             /\ UNCHANGED <<sessionVars, genVars, mainVars, selected, toolVars>>

\* The documents a manager is constructed on: none (or one without
\* categories), or one category with one agent, whose name is one of the
\* personas' and whose role is not that persona's.
InitialDocuments ==
    { <<>>, <<Item("c1", <<AgentData(NameA, "roleB", "personalityB")>>)>> }

\* AgentManager.__init__: agents_data is what _load_agents reads.
InitRegistry ==
    /\ InitFields
    /\ pc = "idle"
    /\ api_key = "key"
    /\ saved = NoFile
    /\ NoDirectCall
    /\ config_doc \in InitialDocuments
    /\ agents_data = config_doc
    /\ op_result = <<>>
    /\ selected = <<>>
    /\ other_data = <<>>
    /\ other_result = <<>>
    /\ NoResults

NextRegistry ==
    \/ \E c \in Categories, e \in RegistryEntries, ok \in BOOLEAN :
          manager_add_agent(c, e[1], e[2], e[3], ok)
    \/ \E c \in Categories, e \in Personas, ok \in BOOLEAN :
          manager_remove_agent(c, e[1], ok)
    \/ \E c \in Categories, ok \in BOOLEAN : add_category(c, ok)
    \/ \E c \in Categories, ok \in BOOLEAN : remove_category(c, ok)

SpecRegistry == InitRegistry /\ [][NextRegistry]_vars

----------------------------------------------------------------------------
(* Two AgentManager instances constructed on one document, which a hand    *)
(* may have edited: its categories are read as they stand, names repeated  *)
(* or not. Each instance keeps its own agents_data; the document is shared *)
(* and nothing locks it.                                                   *)

\* add_agent (lines 126-143) called on the second instance.
other_add_agent(category, name, role, personality, ok) ==
    LET with_key == IF HasCategory(other_data, category)
                    THEN other_data
                    ELSE Assign(other_data, category, <<>>)
    IN  IF HasName(Lookup(with_key, category), name)
        THEN /\ other_data' = with_key
             /\ config_doc' = config_doc
             /\ other_result' = Called("add_agent", category, name, FALSE)
             /\ UNCHANGED <<sessionVars, genVars, mainVars, agents_data, op_result,
                            selected, resultVars>>
        ELSE LET added == Assign(with_key, category,
                              Append(Lookup(with_key, category),
                                     AgentData(name, role, personality)))
                 s == _save_agents(added, config_doc, ok)
             IN  /\ other_data' = added
                 /\ config_doc' = s.doc
                 /\ other_result' = Called("add_agent", category, name, s.ret)
                 /\ UNCHANGED <<sessionVars, genVars, mainVars, agents_data, op_result,
                                selected, resultVars>>

\* A document in which a hand has written one name twice into a category.
RepeatedNameDocument ==
    <<Item("c1", <<AgentData(NameA, "roleB", "personalityB"),
                   AgentData(NameB, "roleB", "personalityB"),
                   AgentData(NameA, "roleA", "personalityA")>>)>>

\* Both constructors have run: each instance holds what _load_agents read.
InitManagers ==
    /\ InitFields
    /\ pc = "idle"
    /\ api_key = "key"
    /\ saved = NoFile
    /\ NoDirectCall
    /\ NoResults
    /\ config_doc \in {<<>>, RepeatedNameDocument}
    /\ agents_data = config_doc
    /\ other_data = config_doc
    /\ op_result = <<>>
    /\ other_result = <<>>
    /\ selected = <<>>

NextManagers ==
    \/ \E e \in RegistryEntries, ok \in BOOLEAN :
          manager_add_agent("c1", e[1], e[2], e[3], ok)
    \/ \E c \in Categories, e \in Personas, ok \in BOOLEAN :
          manager_remove_agent(c, e[1], ok)
    \/ \E c \in Categories, ok \in BOOLEAN : add_category(c, ok)
    \/ \E c \in Categories, ok \in BOOLEAN : remove_category(c, ok)
    \/ \E ok \in BOOLEAN : other_add_agent("c2", NameB, "roleB", "personalityB", ok)

SpecManagers == InitManagers /\ [][NextManagers]_vars

----------------------------------------------------------------------------
(* select_random_agents_from_all, of AgentManager and of agent_presets,    *)
(* over the tables of agents a bounded registry can hold. The table stands *)
(* for agents_data and for AGENT_PRESETS alike: both functions flatten it  *)
(* category after category before they draw.                               *)

MaxPick == 3

\* A bug the code does not have: a draw that can take a position twice.
SampleWithReplacement(M, k) == [1..k -> 1..M]

\* random.sample(population, k), as the positions it can return: k different
\* positions of the population, in any order.
Sample(M, k) ==
    { s \in [1..k -> 1..M] : \A i, j \in 1..k : s[i] = s[j] => i = j }

\* What a call leaves in selected: its argument, the positions of the pool
\* the returned agents came from, and the returned list.
Picked(n, all, picks) ==
    <<[n |-> n, picks |-> picks, agents |-> [i \in 1..Len(picks) |-> all[picks[i]]]]>>

\* AgentManager.select_random_agents_from_all (lines 119-124).
select_random_agents_from_all(n) ==
    /\ LET all == get_all_agents(agents_data)
       IN  IF Len(all) <= n
           THEN selected' = Picked(n, all, [i \in 1..Len(all) |-> i])
           ELSE \E picks \in Sample(Len(all), n) : selected' = Picked(n, all, picks)
    /\ UNCHANGED <<sessionVars, genVars, mainVars, agents_data, config_doc, op_result, toolVars>>

\* agent_presets.select_random_agents_from_all (lines 95-99).
presets_select_random_agents_from_all(n) ==
    /\ LET all == get_all_agents(agents_data)
       IN  \E picks \in Sample(Len(all), Min(n, Len(all))) :
               selected' = Picked(n, all, picks)
    /\ UNCHANGED <<sessionVars, genVars, mainVars, agents_data, config_doc, op_result, toolVars>>

\* The lists a category can hold: the personas, each at most once, in any order.
CategoryLists ==
    { <<>> } \cup { <<AgentData(p[1], p[2], p[3])>> : p \in Personas }
        \cup { <<AgentData(pq[1][1], pq[1][2], pq[1][3]),
                   AgentData(pq[2][1], pq[2][2], pq[2][3])>> :
                  pq \in { x \in Personas \X Personas : x[1] # x[2] } }

InitSelect ==
    /\ InitFields
    /\ pc = "idle"
    /\ api_key = "key"
    /\ saved = NoFile
    /\ NoDirectCall
    /\ agents_data \in { <<Item("c1", l1), Item("c2", l2)>> :
                            l1 \in CategoryLists, l2 \in CategoryLists }
    /\ config_doc = agents_data
    /\ op_result = <<>>
    /\ selected = <<>>
    /\ other_data = <<>>
    /\ other_result = <<>>
    /\ NoResults

NextSelect ==
    \/ \E n \in 0..MaxPick : select_random_agents_from_all(n)
    \/ \E n \in 0..MaxPick : presets_select_random_agents_from_all(n)

SpecSelect == InitSelect /\ [][NextSelect]_vars

----------------------------------------------------------------------------
(* A discussion whose external calls may hang. Every step that can be      *)
(* taken is taken in the end (the event loop runs what is ready); an       *)
(* endpoint that never answers is the step TaskHang, after which nothing   *)
(* in the code wakes the task: there is no timeout and no cancellation.    *)

\* The endpoint will never answer task j: its await never completes.
TaskHang(j) ==
    /\ pc = "gather"
    /\ j \in DOMAIN tasks
    /\ tasks[j].state = "awaiting"
    /\ tasks' = [tasks EXCEPT ![j].state = "hung"]
    /\ UNCHANGED <<agents, messages, discussion_topic, agent_max_chars,
                   summary_max_chars, pc, rounds, round_num, apiCalls, sumPc, summary,
                   genVars, mainVars, regVars, toolVars>>

InitLive == InitSession /\ NoDirectCall

NextLive ==
    \/ \E p \in Personas : add_agent(p[1], p[2], p[3])
    \/ \E R \in 0..MaxRounds : conduct_discussion(R)
    \/ \E j \in 1..Len(tasks) : TaskStart(j)
    \/ \E j \in 1..Len(tasks), o \in SessionOutcomes : TaskReturn(j, o)
    \/ \E j \in 1..Len(tasks) : TaskHang(j)
    \/ GatherJoin
    \/ SleepDone

SpecLive == InitLive /\ [][NextLive]_vars /\ WF_vars(NextLive)

----------------------------------------------------------------------------
(* The tools that read what save_discussion wrote: ResultsManager          *)
(* (results_manager.py) and DiscussionManager (discussion_search.py).      *)
(* json.dump and json.load carry strings, numbers, lists and dicts over    *)
(* unchanged, so the document read is the document written.                *)

UpperCase ==
    <<"A", "B", "C", "D", "E", "F", "G", "H", "I", "J", "K", "L", "M",
      "N", "O", "P", "Q", "R", "S", "T", "U", "V", "W", "X", "Y", "Z">>

LowerCase ==
    <<"a", "b", "c", "d", "e", "f", "g", "h", "i", "j", "k", "l", "m",
      "n", "o", "p", "q", "r", "s", "t", "u", "v", "w", "x", "y", "z">>

\* str.lower()
Lower(s) ==
    [i \in 1..Len(s) |->
        IF \E k \in DOMAIN UpperCase : UpperCase[k] = s[i]
        THEN LowerCase[CHOOSE k \in DOMAIN UpperCase : UpperCase[k] = s[i]]
        ELSE s[i]]

\* sub in s
Contains(sub, s) ==
    \E k \in 0..(Len(s) - Len(sub)) : SubSeq(s, k + 1, k + Len(sub)) = sub

\* The characters of the roles the personas carry.
RoleText(role) ==
    IF role = "roleA" THEN <<"r", "o", "l", "e", "A">> ELSE <<"r", "o", "l", "e", "B">>

\* d.get(key, default)
Get(d, key, default) == IF key \in DOMAIN d THEN d[key] ELSE default

\* The name the driver gives the file: discussion_<timestamp>.json.
FileName == "discussion_1700000000.json"

\* A bug the code does not have: the rounds are counted over all messages,
\* the System message among them.
LoadCountingSystem(data) ==
    LET names == [j \in 1..Len(data.agents) |-> data.agents[j].name]
    IN       [filename |-> FileName,
              topic |-> data.topic,
              agents |-> names,
              categories |-> <<>>,
              rounds |-> IF names # <<>> THEN Len(data.messages) \div Len(names) ELSE 0,
              total_messages |-> Len(data.messages)]

\* ResultsManager._load_discussion_summary (lines 56-96), read where the
\* session ran: discussion_system.py imports agent_classes and the drivers
\* import src.discussion_system, so both directories are on the path and the
\* import of agent_presets in _get_agent_category (lines 98-105) resolves.
\* The names of the personas are in no preset category: each is 'Unknown',
\* which line 70 drops, so the categories come out empty.
_load_discussion_summary(data) ==
    LET names == [j \in 1..Len(data.agents) |-> data.agents[j].name]
        non_system_messages == SelectSeq(data.messages, LAMBDA m : m.agent_name # SystemName)
    IN       [filename |-> FileName,
              topic |-> data.topic,
              agents |-> names,
              categories |-> <<>>,
              rounds |-> IF names # <<>>
                         THEN Len(non_system_messages) \div Len(names)
                         ELSE 0,
              total_messages |-> Len(data.messages)]

\* DiscussionManager.get_all_discussions (lines 28-60): the documents of the
\* results directory, each with its filename.
StoredDiscussion(data) ==
    [topic |-> data.topic, agents |-> data.agents, messages |-> data.messages,
     filename |-> FileName]

\* One discussion's verdict in search_discussions (lines 71-93).
Matches(discussion, query, search_in) ==
    LET query_lower == Lower(query)
    IN  \/ /\ search_in \in {"all", "topic"}
           /\ "topic" \in DOMAIN discussion
           /\ Contains(query_lower, Lower(discussion.topic))
        \/ /\ search_in \in {"all", "content"}
           /\ "discussion" \in DOMAIN discussion
           /\ \E i \in DOMAIN discussion.discussion :
                 Contains(query_lower, Lower(Get(discussion.discussion[i], "content", <<>>)))
        \/ /\ search_in \in {"all", "agents"}
           /\ "agents" \in DOMAIN discussion
           /\ \E j \in DOMAIN discussion.agents :
                 \/ Contains(query_lower, Lower(discussion.agents[j].name))
                 \/ Contains(query_lower, Lower(RoleText(discussion.agents[j].role)))

\* DiscussionManager.search_discussions (lines 62-95).
search_discussions(all, query, search_in) ==
    SelectSeq(all, LAMBDA d : Matches(d, query, search_in))

\* DiscussionManager.create_summary (lines 97-124).
create_summary(discussion) ==
    LET msgs == Get(discussion, "discussion", <<>>)
        spoken == SelectSeq(msgs, LAMBDA m : Get(m, "content", <<>>) # <<>>)
    IN  [filename |-> Get(discussion, "filename", ""),
         topic |-> Get(discussion, "topic", <<>>),
         agents |-> [j \in 1..Len(discussion.agents) |-> discussion.agents[j].name],
         total_messages |-> Len(msgs),
         key_points |-> [i \in 1..Len(spoken) |->
                            [speaker |-> Get(spoken[i], "speaker", <<>>),
                             content |-> spoken[i].content]]]

\* ResultsManager reads the saved document.
LoadSaved ==
    /\ saved # NoFile
    /\ loaded = <<>>
    /\ loaded' = <<_load_discussion_summary(saved[1])>>
    /\ UNCHANGED <<sessionVars, genVars, mainVars, regVars, otherVars,
                   found, created, discussions, trends>>

\* DiscussionManager searches the results directory, the saved document in it.
SearchSaved(query, search_in) ==
    /\ saved # NoFile
    /\ found = <<>>
    /\ found' = <<[query |-> query, search_in |-> search_in,
                   results |-> search_discussions(<<StoredDiscussion(saved[1])>>,
                                                  query, search_in)]>>
    /\ UNCHANGED <<sessionVars, genVars, mainVars, regVars, otherVars,
                   loaded, created, discussions, trends>>

\* DiscussionManager summarises the saved document (organize_discussions).
SummariseSaved ==
    /\ saved # NoFile
    /\ created = <<>>
    /\ created' = <<create_summary(StoredDiscussion(saved[1]))>>
    /\ UNCHANGED <<sessionVars, genVars, mainVars, regVars, otherVars,
                   loaded, found, discussions, trends>>

\* What the user searches for.
Queries == { <<"O", "K">>, <<"t">> }

InitResults == InitSession /\ NoDirectCall

NextResults ==
    \/ \E p \in Personas : add_agent(p[1], p[2], p[3])
    \/ \E t \in Topics : set_topic(t)
    \/ \E R \in 0..MaxRounds : conduct_discussion(R)
    \/ \E j \in 1..Len(tasks) : TaskStart(j)
    \/ \E j \in 1..Len(tasks), o \in SessionOutcomes : TaskReturn(j, o)
    \/ GatherJoin
    \/ SleepDone
    \/ SummarizeStart
    \/ SummarizeReturn(TextOutcome(SummaryReply))
    \/ save_discussion
    \/ LoadSaved
    \/ \E q \in Queries, search_in \in {"content", "all"} : SearchSaved(q, search_in)
    \/ SummariseSaved

SpecResults == InitResults /\ [][NextResults]_vars

----------------------------------------------------------------------------
(* AgentManager.select_agents_interactive: the line the user types is      *)
(* stripped, split at the commas and converted field by field.             *)

Digits == <<"0", "1", "2", "3", "4", "5", "6", "7", "8", "9">>

IsDigits(s) == \A i \in DOMAIN s : \E d \in DOMAIN Digits : Digits[d] = s[i]

RECURSIVE DigitsValue(_)
DigitsValue(s) ==
    IF s = <<>>
    THEN 0
    ELSE 10 * DigitsValue(SubSeq(s, 1, Len(s) - 1))
            + (CHOOSE d \in DOMAIN Digits : Digits[d] = s[Len(s)]) - 1

\* int(x.strip()): <<the number>>, or <<>> where int raises ValueError.
ParseInt(x) ==
    LET t == Strip(x)
        signed == t # <<>> /\ Head(t) \in {"-", "+"}
        body == IF signed THEN Tail(t) ELSE t
    IN  IF body = <<>> \/ ~IsDigits(body)
        THEN <<>>
        ELSE IF signed /\ Head(t) = "-"
             THEN <<0 - DigitsValue(body)>>
             ELSE <<DigitsValue(body)>>

\* selection.split(',')
RECURSIVE Split(_)
Split(s) ==
    IF \A i \in DOMAIN s : s[i] # ","
    THEN <<s>>
    ELSE LET k == CHOOSE i \in DOMAIN s :
                      s[i] = "," /\ \A j \in 1..(i - 1) : s[j] # ","
         IN  <<SubSeq(s, 1, k - 1)>> \o Split(SubSeq(s, k + 1, Len(s)))

\* Lines 104-107: the positions of the agents the typed indices select.
RECURSIVE Take(_, _, _, _)
Take(indices, N, max_agents, taken) ==
    IF indices = <<>>
    THEN taken
    ELSE LET idx == Head(indices)
         IN  Take(Tail(indices), N, max_agents,
                  IF 0 <= idx /\ idx < N /\ Len(taken) < max_agents
                  THEN Append(taken, idx + 1)
                  ELSE taken)

\* What a call leaves in selected: its arguments, the line typed, the
\* positions of the category the returned agents came from, and the list.
Chosen(category, max_agents, line, all, picks) ==
    <<[category |-> category, n |-> max_agents, line |-> line, picks |-> picks,
       agents |-> [i \in 1..Len(picks) |-> all[picks[i]]]]>>

\* The lists select_agents_interactive can return on a typed line.
Selections(all, max_agents, line) ==
    LET N == Len(all)
        selection == Strip(line)
        fields == Split(selection)
        parsed == [i \in 1..Len(fields) |-> ParseInt(fields[i])]
        indices == [i \in 1..Len(fields) |-> parsed[i][1] - 1]
        selected_agents == Take(indices, N, max_agents, <<>>)
        remaining == max_agents - Len(selected_agents)
        available == SelectSeq([i \in 1..N |-> i],
                        LAMBDA p : \A i \in DOMAIN selected_agents :
                                       all[selected_agents[i]] # all[p])
    IN  IF selection = <<>>
        THEN Sample(N, max_agents)
        ELSE IF \E i \in DOMAIN parsed : parsed[i] = <<>>
        THEN Sample(N, Min(max_agents, N))
        ELSE IF Len(selected_agents) < max_agents
        THEN { Prefix(selected_agents \o [i \in 1..Len(extra) |-> available[extra[i]]],
                      max_agents) :
                  extra \in Sample(Len(available), Min(remaining, Len(available))) }
        ELSE { Prefix(selected_agents, max_agents) }

\* AgentManager.select_agents_interactive (lines 79-117).
select_agents_interactive(category, max_agents, line) ==
    /\ LET all == get_agents_by_category(agents_data, category)
       IN  IF all = <<>>
           THEN selected' = Chosen(category, max_agents, <<>>, all, <<>>)
           ELSE IF Len(all) <= max_agents
           THEN selected' = Chosen(category, max_agents, <<>>, all,
                                   [i \in 1..Len(all) |-> i])
           ELSE \E picks \in Selections(all, max_agents, line) :
                   selected' = Chosen(category, max_agents, line, all, picks)
    /\ UNCHANGED <<sessionVars, genVars, mainVars, agents_data, config_doc, op_result, toolVars>>

\* What the user types at the prompt: nothing, blanks, indices, an index
\* twice, indices out of range, and text that is no number.
TypedLines ==
    { <<>>, <<" ">>, <<"1", ",", "2">>, <<"2", ",", " ", "1">>, <<"3">>,
      <<"1", ",", "1">>, <<"2", ",", "2", ",", "1">>, <<"9">>, <<"0">>,
      <<"-", "1">>, <<"1", "0">>, <<"x">>, <<"1", ",", "x">>, <<"1", ",">> }

\* The agents a category holds in the configuration file.
InteractiveLists ==
    LET l == Lookup(RepeatedNameDocument, "c1")
    IN  { SubSeq(l, 1, k) : k \in 1..Len(l) } \cup { SubSeq(l, 2, 3) }

InitInteractive ==
    /\ InitFields
    /\ pc = "idle"
    /\ api_key = "key"
    /\ saved = NoFile
    /\ NoDirectCall
    /\ agents_data \in { <<Item("c1", l)>> : l \in InteractiveLists }
    /\ config_doc = agents_data
    /\ op_result = <<>>
    /\ selected = <<>>
    /\ other_data = <<>>
    /\ other_result = <<>>
    /\ NoResults

NextInteractive ==
    \E category \in Categories, max_agents \in 1..MaxPick, line \in TypedLines :
        select_agents_interactive(category, max_agents, line)

SpecInteractive == InitInteractive /\ [][NextInteractive]_vars

----------------------------------------------------------------------------
(* DiscussionBrowser.get_topic_trends over the summaries that              *)
(* ResultsManager.get_all_discussions returns. A character outside ASCII   *)
(* is written as its code point, "U+6559"; str.lower() leaves it as it is. *)

MaxStored == 3

\* Lines 130-138: the keyword table, in the order of its declaration.
keywords ==
    <<
      \* AI / gijutsu (technology)
      [category |-> <<"A", "I", "U+30FB", "U+6280", "U+8853">>,
       keywords |->
         <<
           <<"A", "I">>,
           <<"a", "i">>,
           <<"U+4EBA", "U+5DE5", "U+77E5", "U+80FD">>,
           <<"U+6280", "U+8853">>,
           <<"U+30C6", "U+30AF", "U+30CE", "U+30ED", "U+30B8", "U+30FC">>,
           <<"t", "e", "c", "h">>,
           <<"U+30D7", "U+30ED", "U+30B0", "U+30E9", "U+30DF", "U+30F3", "U+30B0">>
         >>],
      \* bijinesu (business)
      [category |-> <<"U+30D3", "U+30B8", "U+30CD", "U+30B9">>,
       keywords |->
         <<
           <<"U+30D3", "U+30B8", "U+30CD", "U+30B9">>,
           <<"U+7D4C", "U+55B6">>,
           <<"U+4F1A", "U+793E">>,
           <<"U+4F01", "U+696D">>,
           <<"U+30DE", "U+30CD", "U+30B8", "U+30E1", "U+30F3", "U+30C8">>,
           <<"U+6226", "U+7565">>
         >>],
      \* kyouiku (education)
      [category |-> <<"U+6559", "U+80B2">>,
       keywords |->
         <<
           <<"U+6559", "U+80B2">>,
           <<"U+5B66", "U+7FD2">>,
           <<"U+5B66", "U+6821">>,
           <<"U+5927", "U+5B66">>,
           <<"U+7814", "U+7A76">>,
           <<"U+6559", "U+5E2B">>,
           <<"U+5B66", "U+751F">>
         >>],
      \* shakai (society)
      [category |-> <<"U+793E", "U+4F1A">>,
       keywords |->
         <<
           <<"U+793E", "U+4F1A">>,
           <<"U+653F", "U+6CBB">>,
           <<"U+6CD5", "U+5F8B">>,
           <<"U+653F", "U+7B56">>,
           <<"U+5E02", "U+6C11">>,
           <<"U+516C", "U+5171">>
         >>],
      \* kankyou (environment)
      [category |-> <<"U+74B0", "U+5883">>,
       keywords |->
         <<
           <<"U+74B0", "U+5883">>,
           <<"U+6301", "U+7D9A", "U+53EF", "U+80FD">>,
           <<"U+30A8", "U+30B3">>,
           <<"U+518D", "U+751F", "U+53EF", "U+80FD">>,
           <<"U+6C17", "U+5019">>
         >>],
      \* kenkou / iryou (health, medicine)
      [category |-> <<"U+5065", "U+5EB7", "U+30FB", "U+533B", "U+7642">>,
       keywords |->
         <<
           <<"U+5065", "U+5EB7">>,
           <<"U+533B", "U+7642">>,
           <<"U+75C5", "U+9662">>,
           <<"U+6CBB", "U+7642">>,
           <<"U+60A3", "U+8005">>,
           <<"U+533B", "U+5E2B">>
         >>],
      \* sonota (other)
      [category |-> <<"U+305D", "U+306E", "U+4ED6">>,
       keywords |-> <<>>]
    >>

\* The key of the fallback bucket, sonota (other).
Fallback == <<"U+305D", "U+306E", "U+4ED6">>

\* Topics: "AI to kyouiku" (AI and education),
TopicAI == <<"A", "I", "U+3068", "U+6559", "U+80B2">>

\* "gakkou no mirai" (the future of school),
TopicSchool == <<"U+5B66", "U+6821", "U+306E", "U+672A", "U+6765">>

\* and one no keyword occurs in.
TopicOther == <<"x">>

\* A key of AGENT_PRESETS: shakai mondai (social problems).
PresetSocial == <<"U+793E", "U+4F1A", "U+554F", "U+984C">>

\* " ".join(words)
RECURSIVE Join(_)
Join(words) ==
    IF words = <<>>
    THEN <<>>
    ELSE IF Len(words) = 1
    THEN words[1]
    ELSE words[1] \o <<" ">> \o Join(Tail(words))

\* Line 142: the text the keywords are looked up in.
TrendText(discussion) ==
    Lower(discussion.topic \o <<" ">> \o Join(discussion.categories))

\* Line 148: any(keyword in text for keyword in category_keywords)
AnyKeyword(k, text) ==
    \E i \in DOMAIN keywords[k].keywords : Contains(keywords[k].keywords[i], text)

\* trends[category].append(discussion), the list made when it is not there.
Put(t, category, discussion) ==
    IF \E i \in DOMAIN t : t[i].category = category
    THEN [i \in DOMAIN t |->
            IF t[i].category = category
            THEN [t[i] EXCEPT !.discussions = Append(@, discussion)]
            ELSE t[i]]
    ELSE Append(t, [category |-> category, discussions |-> <<discussion>>])

\* A bug the code does not have: the loop over the categories has no break.
RECURSIVE ClassifyEvery(_, _, _)
ClassifyEvery(t, discussion, k) ==
    IF k > Len(keywords)
    THEN IF \E i \in DOMAIN keywords :
                keywords[i].category # Fallback /\ AnyKeyword(i, TrendText(discussion))
         THEN t
         ELSE Put(t, Fallback, discussion)
    ELSE IF keywords[k].category # Fallback /\ AnyKeyword(k, TrendText(discussion))
    THEN ClassifyEvery(Put(t, keywords[k].category, discussion), discussion, k + 1)
    ELSE ClassifyEvery(t, discussion, k + 1)

\* Lines 140-157: one discussion, looked up category after category from
\* the k-th on.
RECURSIVE Classify(_, _, _)
Classify(t, discussion, k) ==
    IF k > Len(keywords)
    THEN Put(t, Fallback, discussion)
    ELSE IF keywords[k].category # Fallback /\ AnyKeyword(k, TrendText(discussion))
    THEN Put(t, keywords[k].category, discussion)
    ELSE Classify(t, discussion, k + 1)

\* Lines 139-159: the discussions from the i-th on.
RECURSIVE Trends(_, _, _)
Trends(t, all, i) ==
    IF i > Len(all) THEN t ELSE Trends(Classify(t, all[i], 1), all, i + 1)

\* The topics and the preset categories of the stored discussions.
StoredTopics == { TopicAI, TopicSchool, TopicOther }

StoredCategories == { <<>>, <<PresetSocial>> }

\* A discussion file appears in the results directory. get_all_discussions
\* (results_manager.py lines 38-54) sorts by timestamp, the newest first.
StoreDiscussion(topic, categories) ==
    /\ Len(discussions) < MaxStored
    /\ discussions' = <<[timestamp |-> Len(discussions) + 1, topic |-> topic,
                         categories |-> categories]>> \o discussions
    /\ UNCHANGED <<sessionVars, genVars, mainVars, regVars, otherVars,
                   loaded, found, created, trends>>

\* DiscussionBrowser.get_topic_trends (lines 123-159): what it was called
\* on, and the dict it returned, a bucket for every key in insertion order.
get_topic_trends ==
    /\ trends' = <<[of |-> discussions, buckets |-> Trends(<<>>, discussions, 1)]>>
    /\ UNCHANGED <<sessionVars, genVars, mainVars, regVars, otherVars,
                   loaded, found, created, discussions>>

InitTrends == InitSession /\ NoDirectCall

NextTrends ==
    \/ \E topic \in StoredTopics, categories \in StoredCategories :
          StoreDiscussion(topic, categories)
    \/ get_topic_trends

SpecTrends == InitTrends /\ [][NextTrends]_vars

----------------------------------------------------------------------------
(* What the claims speak of.                                               *)

NumAgents == Len(agents)

\* The log position (from 1) of the reply of agent j (from 1) in round r (from 0).
ReplyPos(r, j) == 1 + r * NumAgents + j

\* The requests the endpoint received for agent j in round r.
CallsFor(r, j) ==
    { k \in DOMAIN apiCalls :
        apiCalls[k].kind = "agent" /\ apiCalls[k].round = r /\ apiCalls[k].idx = j }

SummaryCalls == { k \in DOMAIN apiCalls : apiCalls[k].kind = "summary" }

\* What the endpoint answered to agent j in round r.
OutcomeFor(r, j) == apiCalls[CHOOSE k \in CallsFor(r, j) : TRUE].outcome

Failed(outcome) == outcome.kind \in {"call_error", "text_error"}

\* The rounds whose replies stand in the log.
JoinedRounds == { r \in 0..(rounds - 1) : Len(messages) >= ReplyPos(r, NumAgents) }

NonSystem == { i \in DOMAIN messages : messages[i].agent_name # SystemName }

----------------------------------------------------------------------------
\* C1: when conduct_discussion(rounds = R) has returned on a fresh system
\* with P agents, the log holds exactly 1 + R*P messages, whatever calls
\* failed.
C1_LogLength ==
    pc = "done" => Len(messages) = 1 + rounds * NumAgents

\* A finished session of 2 rounds and 2 agents in which a call failed and a
\* call succeeded.
C1_Witness ==
    /\ pc = "done"
    /\ rounds = 2
    /\ NumAgents = 2
    /\ Len(messages) = 5
    /\ \E i, k \in DOMAIN messages :
          /\ IsErrorText(messages[i].content)
          /\ messages[k].content = <<"o", "k">>

\* C2: the message at log index 1 + r*P + j (both from 0) is authored by
\* the j-th agent of the list, in whatever order the calls of the round
\* complete.
C2_ListOrder ==
    \A r \in 0..(rounds - 1), j \in 1..NumAgents :
        ReplyPos(r, j) <= Len(messages)
            => messages[ReplyPos(r, j)].agent_name = agents[j].name

\* Round 0 stands in the log in list order (A, then B), and in round 1 the
\* second agent's call has completed before the first agent's.
C2_Witness ==
    /\ pc = "gather"
    /\ round_num = 1
    /\ NumAgents = 2
    /\ agents[1].name = NameA
    /\ agents[2].name = NameB
    /\ Len(messages) = 3
    /\ messages[2].agent_name = NameA
    /\ messages[3].agent_name = NameB
    /\ tasks[1].state = "awaiting"
    /\ tasks[2].state = "returned"

\* C3: in a round every agent's call is given the same window, the
\* rendering of the last 10 messages of the log as it stood before the
\* round's calls were dispatched; no reply of the round is in it.
C3_SharedWindow ==
    \A j \in DOMAIN tasks :
        LET n == 1 + round_num * NumAgents
            h == tasks[j].history
        IN  /\ n <= Len(messages)
            /\ Len(h) = Min(HistoryWindow, n)
            /\ \A i \in 1..Len(h) :
                  h[i] = messages[n - Len(h) + i].agent_name
                            \o <<":", " ">> \o messages[n - Len(h) + i].content
            /\ \A k \in DOMAIN tasks : tasks[k].history = h

\* Round 1 of 2 agents has been appended (5 messages), and its calls were
\* given the 3 lines that came before it.
C3_Witness ==
    /\ pc = "sleep"
    /\ round_num = 1
    /\ NumAgents = 2
    /\ Len(messages) = 5
    /\ Len(tasks[1].history) = 3
    /\ Len(tasks[2].history) = 3

\* C4: the window given to the calls of round i+1 contains every reply
\* appended in round i, for every number of agents.
C4_WindowHoldsPreviousRound ==
    \A j \in DOMAIN tasks :
        round_num >= 1 =>
            \A i \in 1..NumAgents :
                \E k \in DOMAIN tasks[j].history :
                    tasks[j].history[k] = Line(messages[ReplyPos(round_num - 1, i)])

\* Whether the reply of agent j in round r was cut to the budget.
WasTruncated(r, j) ==
    /\ OutcomeFor(r, j).kind = "text"
    /\ Len(Strip(OutcomeFor(r, j).text)) > agent_max_chars

\* C5: every message an agent contributes, failure records included, is at
\* most agent_max_chars long, plus the 3 characters of "..." if the reply
\* was truncated.
C5_WithinBudgetOrEllipsis ==
    \A r \in JoinedRounds, j \in 1..NumAgents :
        Len(messages[ReplyPos(r, j)].content)
            <= agent_max_chars + (IF WasTruncated(r, j) THEN 3 ELSE 0)

\* C6: after set_limits(agent_limit, _) and conduct_discussion, every
\* message that is not the System's has len(content) <= agent_limit.
C6_WithinLimit ==
    \A i \in NonSystem : Len(messages[i].content) <= agent_max_chars

\* C7: _generate_response never raises; whenever producing the reply fails
\* (model construction, the call, reading the text) it returns
\* "[Error from <agent.name>: <detail>]".
C7_NeverRaises ==
    genResult # Pending =>
        /\ ~genResult.raised
        /\ Failed(genOutcome) =>
              genResult.value =
                  <<"[", "E", "r", "r", "o", "r", " ", "f", "r", "o", "m", " ">>
                      \o genAgent.name \o <<":", " ">> \o genOutcome.detail \o <<"]">>

\* C8: when an agent's call fails in round r, the round still appends one
\* message per agent: the failed agent's is "[Error from <name>: <detail>]",
\* every other agent's is that agent's own reply; and the later rounds are
\* carried out, so the finished session holds all R rounds.
C8_FailureIsolated ==
    /\ \A r \in JoinedRounds, j \in 1..NumAgents :
          LET m == messages[ReplyPos(r, j)]
              o == OutcomeFor(r, j)
          IN  /\ CallsFor(r, j) # {}
              /\ m.agent_name = agents[j].name
              /\ Failed(o) =>
                    m.content =
                        <<"[", "E", "r", "r", "o", "r", " ", "f", "r", "o", "m", " ">>
                            \o agents[j].name \o <<":", " ">> \o o.detail \o <<"]">>
              /\ o.kind = "text" =>
                    m.content = Truncate(Strip(o.text), agent_max_chars)
    /\ pc = "done" => JoinedRounds = 0..(rounds - 1)

\* B's call failed in round 0 while A's succeeded; both rounds are in the
\* log, B's round-0 message being the error text.
C8_Witness ==
    /\ pc = "done"
    /\ rounds = 2
    /\ NumAgents = 2
    /\ agents[2].name = NameB
    /\ Failed(OutcomeFor(0, 2))
    /\ OutcomeFor(0, 1).kind = "text"
    /\ messages[3].content = ErrorText(NameB, ErrorDetail)
    /\ messages[2].content = <<"o", "k">>
    /\ Len(messages) = 5

\* C9: no reply of a round is appended before every call of the round has
\* returned, and no call of round r+1 goes out before all P replies of
\* round r are in the log.
C9_RoundBarrier ==
    /\ (\E j \in DOMAIN tasks : tasks[j].state # "returned")
          => Len(messages) = 1 + round_num * NumAgents
    /\ \A k \in DOMAIN apiCalls :
          apiCalls[k].kind = "agent"
              => /\ Len(messages) >= 1 + apiCalls[k].round * NumAgents
                 /\ apiCalls[k].round <= round_num
    /\ \A j \in DOMAIN tasks :
          tasks[j].state = "created" => CallsFor(round_num, j) = {}

\* In round 1 the first agent's call has returned, the second agent's has
\* not, and the log still ends with round 0.
C9_Witness ==
    /\ pc = "gather"
    /\ round_num = 1
    /\ NumAgents = 2
    /\ tasks[1].state = "returned"
    /\ tasks[2].state = "awaiting"
    /\ Len(messages) = 3

\* C10: in a session of R rounds with P agents and one summarize_discussion
\* call the endpoint is asked once per (agent, round) and once for the
\* summary, R*P + 1 requests in all; a failed request is never sent again.
C10_OneCallEach ==
    /\ \A r \in 0..MaxRounds, j \in 1..NumAgents : Cardinality(CallsFor(r, j)) <= 1
    /\ Cardinality(SummaryCalls) <= 1
    /\ (pc = "done" /\ sumPc = "returned") =>
          /\ \A r \in 0..(rounds - 1), j \in 1..NumAgents :
                Cardinality(CallsFor(r, j)) = 1
          /\ Cardinality(SummaryCalls) = 1
          /\ Len(apiCalls) = rounds * NumAgents + 1

\* A summarized session of 2 rounds and 2 agents, with failed requests
\* among its 5.
C10_Witness ==
    /\ pc = "done"
    /\ sumPc = "returned"
    /\ rounds = 2
    /\ NumAgents = 2
    /\ Len(apiCalls) = 5
    /\ \E k \in DOMAIN apiCalls :
          apiCalls[k].kind = "agent" /\ Failed(apiCalls[k].outcome)
    /\ Failed(apiCalls[5].outcome)

----------------------------------------------------------------------------
\* C11: once conduct_discussion has completed, no later operation
\* (summarize_discussion, save_discussion, add_agent, set_topic, set_limits,
\* a further conduct_discussion) changes the message log.
C11_LogFrozenAfterCompletion ==
    [][pc = "done" => messages' = messages]_vars

----------------------------------------------------------------------------
\* C12: once the discussion has started (the log is no longer empty), a call
\* of add_agent or set_topic leaves the agent list and the topic as they were.
C12_ConfigFrozenAfterStart ==
    [][messages # <<>> => (agents' = agents /\ discussion_topic' = discussion_topic)]_vars

----------------------------------------------------------------------------
\* C13: the log is append-only: across every step of every sequence of
\* operations the log before the step is a prefix of the log after it, so no
\* message is removed and none has its author or content changed.
C13_AppendOnly ==
    [][/\ Len(messages') >= Len(messages)
       /\ \A i \in DOMAIN messages : messages'[i] = messages[i]]_vars

\* A second discussion has appended its marker and replies after the first's.
C13_Witness ==
    /\ pc = "done"
    /\ Runs = 2
    /\ Len(messages) >= 6
    /\ sumPc = "returned"
    /\ saved # NoFile

----------------------------------------------------------------------------
\* C14: conduct_discussion appends the message (author "System", content
\* "Discussion topic: " + topic) before any generation call is dispatched;
\* it stands at index 0 of the session's log and is the only message there
\* whose author is "System"; with agents [A, B] and one round the log's
\* authors are [System, A, B].
C14_SystemMessageFirst ==
    /\ apiCalls # <<>> => messages # <<>>
    /\ messages # <<>> =>
          /\ messages[1] = Message(SystemName, TopicPrefix \o discussion_topic, 0)
          /\ \A i \in 2..Len(messages) : messages[i].agent_name # SystemName
    /\ (/\ pc = "done"
        /\ rounds = 1
        /\ [j \in 1..Len(agents) |-> agents[j].name] = <<NameA, NameB>>)
          => [i \in 1..Len(messages) |-> messages[i].agent_name] = <<SystemName, NameA, NameB>>

\* Agents [A, B], a topic, one round, completed.
C14_Witness ==
    /\ pc = "done"
    /\ rounds = 1
    /\ discussion_topic = <<"T">>
    /\ [j \in 1..Len(agents) |-> agents[j].name] = <<NameA, NameB>>
    /\ Len(messages) = 3
    /\ Len(apiCalls) >= 2

----------------------------------------------------------------------------
\* The i-th (from 1) log position whose message is not the System's.
NthNonSystem(i) ==
    CHOOSE k \in NonSystem : Cardinality({ m \in NonSystem : m < k }) = i - 1

----------------------------------------------------------------------------
\* C16: the request summarize_discussion sends embeds the session's
\* summary_max_chars (as advisory text), so that sessions differing only in
\* summary_max_chars send different requests.
C16_LimitInPayload ==
    \A k \in SummaryCalls :
        /\ "summary_max_chars" \in DOMAIN apiCalls[k].prompt
        /\ apiCalls[k].prompt.summary_max_chars = summary_max_chars

----------------------------------------------------------------------------
\* C17: when the summary's generation call fails, summarize_discussion
\* returns the error text instead of raising, the log is as the discussion
\* left it, and save_discussion afterwards writes the complete document: the
\* topic, the agents and all 1 + R*P messages.
C17_FailedSummaryStillSaves ==
    \A k \in SummaryCalls :
        Failed(apiCalls[k].outcome) =>
            /\ sumPc = "returned"
            /\ summary = SummaryErrorPrefix \o apiCalls[k].outcome.detail
            /\ Len(messages) = 1 + rounds * NumAgents
            /\ saved = NoFile => ENABLED save_discussion
            /\ saved # NoFile =>
                  /\ saved[1].topic = discussion_topic
                  /\ Len(saved[1].agents) = NumAgents
                  /\ \A j \in 1..NumAgents :
                        /\ saved[1].agents[j].name = agents[j].name
                        /\ saved[1].agents[j].role = agents[j].role
                        /\ saved[1].agents[j].personality = agents[j].personality
                  /\ Len(saved[1].messages) = 1 + rounds * NumAgents
                  /\ \A i \in DOMAIN messages :
                        /\ saved[1].messages[i].agent_name = messages[i].agent_name
                        /\ saved[1].messages[i].content = messages[i].content

\* Two agents, two rounds, a failed summary, and the document saved.
C17_Witness ==
    /\ sumPc = "returned"
    /\ \E k \in SummaryCalls : Failed(apiCalls[k].outcome)
    /\ NumAgents = 2
    /\ rounds = 2
    /\ saved # NoFile
    /\ Len(saved[1].messages) = 5

----------------------------------------------------------------------------
\* C18: when the credential is missing the session is aborted before any
\* round: no agent is registered, no message is appended, no generation call
\* is made and nothing is saved.
C18_NoKeyNoSession ==
    api_key = NoKey =>
        /\ pc \in {"main", "aborted"}
        /\ agents = <<>>
        /\ messages = <<>>
        /\ apiCalls = <<>>
        /\ sumPc = "none"
        /\ saved = NoFile

\* main() has returned for want of a key.
C18_Witness ==
    /\ api_key = NoKey
    /\ pc = "aborted"

----------------------------------------------------------------------------
\* C19: over a pool of M agents select_random_agents_from_all(n) returns
\* exactly min(n, M) agents, each entry of the pool at most once; and when
\* M <= n every entry of the pool exactly once.
C19_SampleOfPool ==
    selected # <<>> =>
        LET s == selected[1]
            all == get_all_agents(agents_data)
            M == Len(all)
        IN  /\ Len(s.agents) = Min(s.n, M)
            /\ Len(s.picks) = Len(s.agents)
            /\ \A i \in DOMAIN s.picks :
                  /\ s.picks[i] \in 1..M
                  /\ s.agents[i] = all[s.picks[i]]
            /\ \A k \in 1..M : Cardinality({ i \in DOMAIN s.picks : s.picks[i] = k }) <= 1
            /\ M <= s.n =>
                  \A k \in 1..M : Cardinality({ i \in DOMAIN s.picks : s.picks[i] = k }) = 1

\* Three drawn from a pool of four in which two categories hold an agent of
\* the same name, both of them drawn.
C19_Witness ==
    /\ selected # <<>>
    /\ Len(get_all_agents(agents_data)) = 4
    /\ selected[1].n = 3
    /\ Len(selected[1].agents) = 3
    /\ \E i, j \in 1..3 : i # j /\ selected[1].agents[i] = selected[1].agents[j]

----------------------------------------------------------------------------
\* No two agents of one category bear the same name.
UniqueNames(data) ==
    \A k \in DOMAIN data :
        \A i, j \in DOMAIN data[k].agents :
            data[k].agents[i].name = data[k].agents[j].name => i = j

\* C20: from a registry whose names are unique within each category, every
\* add_agent, remove_agent, add_category and remove_category leaves them
\* unique; and an add_agent whose name the category already holds returns
\* False and adds nothing.
C20_NamesStayUnique ==
    [][/\ UniqueNames(agents_data')
       /\ \A c \in Categories, e \in RegistryEntries :
             (/\ op_result' = Called("add_agent", c, e[1], TRUE) \/
                 op_result' = Called("add_agent", c, e[1], FALSE)
              /\ HasCategory(agents_data, c)
              /\ HasName(Lookup(agents_data, c), e[1]))
                => /\ op_result'[1].ret = FALSE
                   /\ agents_data' = agents_data
                   /\ config_doc' = config_doc]_vars

\* add_agent has just been refused for a name the category holds, in a
\* registry of two categories.
C20_Witness ==
    /\ op_result = Called("add_agent", "c1", NameA, FALSE)
    /\ HasCategory(agents_data, "c1")
    /\ Lookup(agents_data, "c1")[1] = AgentData(NameA, "roleB", "personalityB")
    /\ Len(Lookup(agents_data, "c1")) = 2
    /\ HasCategory(agents_data, "c2")
    /\ agents_data = config_doc

----------------------------------------------------------------------------
\* The step is a call of the first manager's operation op, whose record is
\* left in op_result; the second manager stands still.
FirstManagerCalls(op) ==
    /\ op_result' # <<>>
    /\ op_result'[1].op = op
    /\ UNCHANGED otherVars

\* C21: remove_agent(category, name) returns False and leaves agents_data and
\* the document as they were when the category does not exist or holds no
\* agent of that name; otherwise every entry of that name leaves the
\* category, the other entries keep their order, the other categories stay,
\* and the value returned is the save's: True with the document rewritten,
\* False with the document as it was.
C21_RemoveAgent ==
    [][FirstManagerCalls("remove_agent") =>
          LET c == op_result'[1].category
              n == op_result'[1].name
              ret == op_result'[1].ret
          IN  IF ~HasCategory(agents_data, c) \/ ~HasName(Lookup(agents_data, c), n)
              THEN /\ ret = FALSE
                   /\ agents_data' = agents_data
                   /\ config_doc' = config_doc
              ELSE /\ Len(agents_data') = Len(agents_data)
                   /\ \A i \in DOMAIN agents_data :
                         /\ agents_data'[i].category = agents_data[i].category
                         /\ agents_data[i].category # c =>
                               agents_data'[i].agents = agents_data[i].agents
                   /\ Lookup(agents_data', c) =
                         SelectSeq(Lookup(agents_data, c), LAMBDA a : a.name # n)
                   /\ ~HasName(Lookup(agents_data', c), n)
                   /\ ret = TRUE => config_doc' = agents_data'
                   /\ ret = FALSE => config_doc' = config_doc]_vars

\* Both entries named A have left the category the document listed them in,
\* B stays, and the document is rewritten.
C21_Witness ==
    /\ op_result = Called("remove_agent", "c1", NameA, TRUE)
    /\ agents_data = <<Item("c1", <<AgentData(NameB, "roleB", "personalityB")>>)>>
    /\ config_doc = agents_data

----------------------------------------------------------------------------
\* The step is a call of the second manager; the first stands still.
SecondManagerCalls ==
    /\ other_result' # <<>>
    /\ UNCHANGED <<agents_data, op_result>>
    /\ ~UNCHANGED otherVars

\* C22: after every mutating operation that returns True (add_agent,
\* remove_agent, add_category, remove_category) the document's categories
\* equal the calling manager's agents_data in full; so with two managers on
\* one document the last writer's state replaces what the other had written.
C22_DocumentIsLastWriter ==
    [][/\ \A op \in {"add_agent", "remove_agent", "add_category", "remove_category"} :
             (FirstManagerCalls(op) /\ op_result'[1].ret = TRUE)
                => config_doc' = agents_data'
       /\ (SecondManagerCalls /\ other_result'[1].ret = TRUE)
             => config_doc' = other_data']_vars

\* The second manager saved its agent B of category c2; the first manager
\* saved after it, and the document holds the first's state, without c2.
C22_Witness ==
    /\ other_result = Called("add_agent", "c2", NameB, TRUE)
    /\ HasCategory(other_data, "c2")
    /\ op_result # <<>>
    /\ op_result[1].ret = TRUE
    /\ config_doc = agents_data
    /\ config_doc # <<>>
    /\ ~HasCategory(config_doc, "c2")

----------------------------------------------------------------------------
\* C27: whenever add_agent, remove_agent, add_category or remove_category
\* returns False, agents_data is what it was before the call, also when the
\* False is that of a failed write of the document.
C27_FalseLeavesRegistry ==
    [][\A op \in {"add_agent", "remove_agent", "add_category", "remove_category"} :
          (FirstManagerCalls(op) /\ op_result'[1].ret = FALSE)
             => agents_data' = agents_data]_vars

----------------------------------------------------------------------------
\* Some generation call of the round in progress will never return.
SomeHung == \E j \in DOMAIN tasks : tasks[j].state = "hung"

\* C23: if every generation call returns in the end (with text or with a
\* failure), conduct_discussion(rounds = R) reaches its end, and it does so
\* after exactly R rounds; if a call of round r never returns, no reply of
\* round r is ever appended and no later round starts.
C23_CompletesUnlessHung ==
    /\ (pc \in {"gather", "sleep"}) ~> (pc = "done" \/ SomeHung)
    /\ [](pc = "done" =>
            /\ Len(messages) = 1 + rounds * NumAgents
            /\ rounds > 0 => round_num = rounds - 1)
    /\ [][SomeHung =>
            /\ SomeHung'
            /\ pc' = "gather"
            /\ round_num' = round_num
            /\ messages' = messages]_vars
    /\ [](SomeHung => Len(messages) = 1 + round_num * NumAgents)

\* The second of two agents hangs in the second of two rounds, the first
\* agent's call of that round having returned.
C23_Witness ==
    /\ rounds = 2
    /\ round_num = 1
    /\ NumAgents = 2
    /\ tasks[1].state = "returned"
    /\ tasks[2].state = "hung"
    /\ Len(messages) = 3

----------------------------------------------------------------------------
\* C24: the window of a round is the last min(10, length) messages of the
\* log as it stands when the round starts, one line "<author>: <content>"
\* per message in log order, the newest last; and from round 0 on it is
\* never the placeholder of the empty log, the System message being there.
C24_WindowIsLogTail ==
    pc = "gather" =>
        /\ messages # <<>>
        /\ \A j \in DOMAIN tasks :
              LET h == tasks[j].history
                  L == Len(messages)
              IN  /\ h # <<NoPreviousMessages>>
                  /\ Len(h) = Min(10, L)
                  /\ \A i \in 1..Len(h) :
                        h[i] = messages[L - Len(h) + i].agent_name \o ColonSpace
                                  \o messages[L - Len(h) + i].content

\* Round 1 of eleven agents: the log holds twelve messages, the window the
\* last ten of them, the last line being the eleventh agent's reply.
C24_Witness ==
    /\ pc = "gather"
    /\ round_num = 1
    /\ Len(messages) = 12
    /\ Len(tasks[1].history) = 10
    /\ tasks[1].history[10] = messages[12].agent_name \o ColonSpace \o messages[12].content
    /\ tasks[1].history[1] = messages[3].agent_name \o ColonSpace \o messages[3].content

----------------------------------------------------------------------------
\* C25: only conduct_discussion writes the log. Every step that changes it
\* is conduct_discussion's own (the System message at its start, the
\* appends after a join); the steps of _generate_response, of
\* summarize_discussion and of save_discussion leave it as it is, so from
\* the taking of a round's window to the end of that round's join the log
\* does not change.
C25_OnlyConductWrites ==
    [][/\ messages' # messages =>
             \/ pc = "idle" /\ pc' \in {"gather", "done"}
             \/ pc = "gather" /\ pc' = "sleep"
       /\ (pc = "gather" /\ pc' = "gather") => messages' = messages
       /\ (sumPc' # sumPc \/ summary' # summary \/ saved' # saved)
             => messages' = messages]_vars

\* Two rounds of two agents, summarised with success and saved: the log is
\* what the rounds left, and so is the copy in the document.
C25_Witness ==
    /\ pc = "done"
    /\ rounds = 2
    /\ NumAgents = 2
    /\ sumPc = "returned"
    /\ summary = <<"s", "u", "m", "s">>
    /\ saved # NoFile
    /\ Len(messages) = 5
    /\ [i \in 1..5 |-> saved[1].messages[i].timestamp] = <<0, 1, 1, 3, 3>>

----------------------------------------------------------------------------
C30_SearchAndSummaryReadMessages ==
    /\ (/\ found # <<>>
        /\ found[1].search_in = "content"
        /\ \E i \in DOMAIN saved[1].messages :
              Contains(Lower(found[1].query), Lower(saved[1].messages[i].content)))
       => found[1].results = <<StoredDiscussion(saved[1])>>
    /\ created # <<>> => created[1].total_messages = Len(saved[1].messages)

(* C28: on a category holding N >= 1 agents, whatever line the user        *)
(* types, select_agents_interactive returns exactly min(max_agents, N)     *)
(* agents and no agent of the category twice.                              *)
C28_InteractiveSelection ==
    (selected # <<>> /\ "line" \in DOMAIN selected[1]
        /\ HasCategory(agents_data, selected[1].category)) =>
        LET N == Len(Lookup(agents_data, selected[1].category))
            picks == selected[1].picks
        IN  N >= 1 =>
              /\ Len(selected[1].agents) = Min(selected[1].n, N)
              /\ \A i, j \in DOMAIN picks : picks[i] = picks[j] => i = j

\* The keyword categories, the fallback aside, whose keywords occur in the
\* text of a discussion.
MatchingCategories(discussion) ==
    { k \in DOMAIN keywords :
         /\ keywords[k].category # Fallback
         /\ \E i \in DOMAIN keywords[k].keywords :
               Contains(keywords[k].keywords[i],
                        Lower(discussion.topic \o <<" ">> \o Join(discussion.categories))) }

\* The places of a result where a discussion stands.
PlacesOf(buckets, discussion) ==
    { ij \in (DOMAIN buckets) \X (1..MaxStored) :
         /\ ij[2] \in DOMAIN buckets[ij[1]].discussions
         /\ buckets[ij[1]].discussions[ij[2]] = discussion }

(* C29: get_topic_trends partitions the stored discussions. Every          *)
(* discussion get_all_discussions returned stands in exactly one bucket:   *)
(* that of the first keyword category, in declaration order, matching its  *)
(* lower-cased topic and categories, else the fallback bucket. The buckets *)
(* hold nothing else, no category has two buckets, and no bucket is empty. *)
C29_TrendsPartition ==
    trends # <<>> =>
        LET all == trends[1].of
            buckets == trends[1].buckets
        IN  /\ \A n \in DOMAIN all :
                  /\ Cardinality(PlacesOf(buckets, all[n])) = 1
                  /\ \A ij \in PlacesOf(buckets, all[n]) :
                        buckets[ij[1]].category =
                            IF MatchingCategories(all[n]) = {}
                            THEN Fallback
                            ELSE keywords[CHOOSE k \in MatchingCategories(all[n]) :
                                     \A m \in MatchingCategories(all[n]) : k <= m].category
            /\ \A i \in DOMAIN buckets :
                  /\ buckets[i].discussions # <<>>
                  /\ \A j \in DOMAIN buckets[i].discussions :
                        \E n \in DOMAIN all : all[n] = buckets[i].discussions[j]
                  /\ \A i2 \in DOMAIN buckets :
                        buckets[i].category = buckets[i2].category => i = i2

C29_Witness ==
    /\ trends # <<>>
    /\ Len(trends[1].of) = 3
    /\ Len(trends[1].buckets) = 3
    /\ \E n \in DOMAIN trends[1].of : Cardinality(MatchingCategories(trends[1].of[n])) = 2
    /\ \E i \in DOMAIN trends[1].buckets : trends[1].buckets[i].category = Fallback

====
